---- MODULE Spec2Model ----
(***************************************************************************)
(* Model of the EPUB ingestion core of NovelStudio                          *)
(* (src/modules/ingestion/ingestion_epub.py, class EpubIngestor).           *)
(*                                                                         *)
(* Texts are TLA+ strings; a character is a string of length 1.  The       *)
(* regular expressions and str methods of the source are modelled by what  *)
(* they do on the ASCII characters listed below (the bullet glyph of the   *)
(* separator pattern and non-ASCII digits or spaces are outside the        *)
(* alphabet of the model).                                                  *)
(***************************************************************************)
EXTENDS Integers, Sequences, FiniteSets, TLC

VARIABLES
    pc,                 \* position of the running procedure
    book,               \* item id -> item of the loaded book (fixed per run)
    spine_left,         \* spine references still to be read
    processed_ids,      \* run(): processed_ids
    chap_counter,       \* run(): chap_counter
    last_chapter_num,   \* self.last_chapter_num
    sub_chapter_count,  \* self.sub_chapter_count
    chapters,           \* self.structure["chapters"]
    elements,           \* process_item_content(): root.find_all(...) of the item
    idx,                \* process_item_content(): position of the walk in elements
    current_scene_text, \* process_item_content(): current_scene_text
    scenes,             \* process_item_content(): scenes
    chapter_title,      \* process_item_content(): chapter_title
    chapter_num_label,  \* process_item_content(): chapter_num_label
    arg,                \* argument(s) of the function under test
    ret                 \* value(s) it returned

vars == <<pc, book, spine_left, processed_ids, chap_counter, last_chapter_num,
          sub_chapter_count, chapters, elements, idx, current_scene_text,
          scenes, chapter_title, chapter_num_label, arg, ret>>

runVars == <<book, spine_left, processed_ids, chap_counter, chapters>>
numVars == <<last_chapter_num, sub_chapter_count>>
walkVars == <<elements, idx, current_scene_text, scenes, chapter_title,
              chapter_num_label>>

-----------------------------------------------------------------------------
(* Characters and str methods *)

Ch(s, i) == SubSeq(s, i, i)

LOWERCASE == "abcdefghijklmnopqrstuvwxyz"
UPPERCASE == "ABCDEFGHIJKLMNOPQRSTUVWXYZ"
DIGITS == "0123456789"
\* the characters of the range [$-_] of url_pattern that are neither letters
\* nor digits, then '!' of its class [!*\\(\\),]
URL_PUNCT == "$%&'()*+,-./:;<=>?@[\\]^_!"

CharsOf(s) == {Ch(s, i) : i \in 1..Len(s)}

DIGIT_CHARS == CharsOf(DIGITS)
UPPER_CHARS == CharsOf(UPPERCASE)
\* the characters url_pattern repeats after the scheme
URL_CHARS ==
    CharsOf(LOWERCASE) \cup CharsOf(UPPERCASE) \cup CharsOf(DIGITS)
        \cup CharsOf(URL_PUNCT)

IsSpace(c) == c \in {" ", "\t", "\n"}
IsDigit(c) == c \in DIGIT_CHARS
IsUpper(c) == c \in UPPER_CHARS

LowerCh(c) ==
    IF IsUpper(c)
    THEN Ch(LOWERCASE, CHOOSE i \in 1..26 : Ch(UPPERCASE, i) = c)
    ELSE c

RECURSIVE LowerFrom(_, _)
LowerFrom(s, i) ==
    IF i > Len(s) THEN "" ELSE LowerCh(Ch(s, i)) \o LowerFrom(s, i + 1)

\* str.lower()
Lower(s) == LowerFrom(s, 1)

\* s.startswith(p) at offset i (1-based)
StartsAt(s, i, p) ==
    /\ i + Len(p) - 1 <= Len(s)
    /\ SubSeq(s, i, i + Len(p) - 1) = p

StartsWith(s, p) == StartsAt(s, 1, p)

RECURSIVE SkipSpaces(_, _)
\* first position >= i of s that holds no whitespace (Len(s) + 1 if none)
SkipSpaces(s, i) ==
    IF i <= Len(s) /\ IsSpace(Ch(s, i)) THEN SkipSpaces(s, i + 1) ELSE i

RECURSIVE SkipWord(_, _)
\* first position >= i of s that holds whitespace (Len(s) + 1 if none)
SkipWord(s, i) ==
    IF i <= Len(s) /\ ~IsSpace(Ch(s, i)) THEN SkipWord(s, i + 1) ELSE i

RECURSIVE SplitFrom(_, _)
SplitFrom(s, i) ==
    LET b == SkipSpaces(s, i)
        e == SkipWord(s, b)
    IN  IF b > Len(s) THEN <<>>
        ELSE <<SubSeq(s, b, e - 1)>> \o SplitFrom(s, e)

\* str.split(): the words of s, separated by runs of whitespace
Split(s) == SplitFrom(s, 1)

RECURSIVE Join(_, _)
\* sep.join(parts)
Join(parts, sep) ==
    IF parts = <<>> THEN ""
    ELSE IF Len(parts) = 1 THEN parts[1]
    ELSE parts[1] \o sep \o Join(Tail(parts), sep)

RECURSIVE LastNonSpace(_, _)
LastNonSpace(s, i) ==
    IF i >= 1 /\ IsSpace(Ch(s, i)) THEN LastNonSpace(s, i - 1) ELSE i

\* str.strip()
Strip(s) == SubSeq(s, SkipSpaces(s, 1), LastNonSpace(s, Len(s)))

-----------------------------------------------------------------------------
(* The compiled patterns of __init__ *)

IsUrlChar(c) == c \in URL_CHARS

RECURSIVE SkipUrlChars(_, _)
SkipUrlChars(s, i) ==
    IF i <= Len(s) /\ IsUrlChar(Ch(s, i)) THEN SkipUrlChars(s, i + 1) ELSE i

\* url_pattern.match at position i: the position after the match, 0 if none
UrlMatchEnd(s, i) ==
    IF ~StartsAt(s, i, "http") THEN 0
    ELSE LET k == IF StartsAt(s, i + 4, "s") THEN i + 5 ELSE i + 4
         IN  IF StartsAt(s, k, "://") /\ k + 3 <= Len(s) /\ IsUrlChar(Ch(s, k + 3))
             THEN SkipUrlChars(s, k + 3)
             ELSE 0

RECURSIVE UrlSubFrom(_, _)
UrlSubFrom(s, i) ==
    IF i > Len(s) THEN ""
    ELSE LET e == UrlMatchEnd(s, i)
         IN  IF e > 0 THEN UrlSubFrom(s, e)
             ELSE Ch(s, i) \o UrlSubFrom(s, i + 1)

\* url_pattern.sub('', s)
url_pattern_sub(s) == UrlSubFrom(s, 1)

\* the alternatives of html_garbage_pattern
GARBAGE_TOKENS ==
    {"html public", "w3c", "dtd xhtml", "xmlns", "xml version", "doctype",
     "encoding="}

\* re.IGNORECASE match of one of the alternatives at position i of s, whose
\* lower-case form is low
GarbageAt(low, i) == \E t \in GARBAGE_TOKENS : StartsAt(low, i, t)

RECURSIVE SkipLine(_, _)
\* '.*' : up to the next newline, which '.' does not match
SkipLine(s, i) ==
    IF i <= Len(s) /\ Ch(s, i) # "\n" THEN SkipLine(s, i + 1) ELSE i

RECURSIVE GarbageSubFrom(_, _, _)
GarbageSubFrom(s, low, i) ==
    IF i > Len(s) THEN ""
    ELSE IF GarbageAt(low, i) THEN GarbageSubFrom(s, low, SkipLine(s, i))
    ELSE Ch(s, i) \o GarbageSubFrom(s, low, i + 1)

\* html_garbage_pattern.sub('', s)
html_garbage_pattern_sub(s) == GarbageSubFrom(s, Lower(s), 1)

NOISE_TOKENS == {"", "html", "xml", "content-type"}

\* EpubIngestor.clean_text
clean_text(text) ==
    IF text = "" THEN ""
    ELSE LET t1 == url_pattern_sub(text)
             t2 == html_garbage_pattern_sub(t1)
             clean == Strip(Join(Split(t2), " "))
         IN  IF Lower(clean) \in NOISE_TOKENS THEN "" ELSE clean

-----------------------------------------------------------------------------
(* clean_text applied repeatedly to one input *)

MaxCleanCalls == 2

\* pieces the raw inputs of clean_text are assembled from
CLEAN_PIECES ==
    {"xml", "version", "html", "public", " ", "\n", "\t", "Ab", "http://a.b",
     "DocType", "x"}

CleanInputs ==
    {""} \cup CLEAN_PIECES
         \cup {a \o b : a \in CLEAN_PIECES, b \in CLEAN_PIECES}
         \cup {a \o b \o c : a \in CLEAN_PIECES, b \in CLEAN_PIECES,
                             c \in CLEAN_PIECES}

Idle ==
    /\ book = <<>> /\ spine_left = 0 /\ processed_ids = {}
    /\ chap_counter = 0 /\ chapters = <<>>
    /\ last_chapter_num = 0 /\ sub_chapter_count = 0
    /\ elements = <<>> /\ idx = 0 /\ current_scene_text = <<>>
    /\ scenes = <<>> /\ chapter_title = "" /\ chapter_num_label = ""

InitClean ==
    /\ Idle
    /\ pc = "clean"
    /\ arg \in CleanInputs
    /\ ret = <<>>

\* one more call: the first on the input, the next ones on the last result
CleanCall ==
    /\ pc = "clean"
    /\ Len(ret) < MaxCleanCalls
    /\ ret' = Append(ret, clean_text(IF ret = <<>> THEN arg ELSE ret[Len(ret)]))
    /\ UNCHANGED <<pc, arg, runVars, numVars, walkVars>>

NextClean == CleanCall

SpecClean == InitClean /\ [][NextClean]_vars

-----------------------------------------------------------------------------
(* Chapter numbering *)

DigitVal(c) == (CHOOSE i \in 1..10 : Ch(DIGITS, i) = c) - 1

RECURSIVE FindDigit(_, _)
\* first position >= i of s that holds a digit (Len(s) + 1 if none)
FindDigit(s, i) ==
    IF i <= Len(s) /\ ~IsDigit(Ch(s, i)) THEN FindDigit(s, i + 1) ELSE i

RECURSIVE SkipDigits(_, _)
SkipDigits(s, i) ==
    IF i <= Len(s) /\ IsDigit(Ch(s, i)) THEN SkipDigits(s, i + 1) ELSE i

\* number_extractor.search(title).group(1): "" stands for no match
number_extractor_search(title) ==
    LET b == FindDigit(title, 1)
    IN  SubSeq(title, b, SkipDigits(title, b) - 1)

RECURSIVE ParseIntAcc(_, _, _)
ParseIntAcc(s, i, acc) ==
    IF i > Len(s) THEN acc
    ELSE ParseIntAcc(s, i + 1, acc * 10 + DigitVal(Ch(s, i)))

\* int(s) of a string of decimal digits
int(s) == ParseIntAcc(s, 1, 0)

RECURSIVE str(_)
\* str(n) of an integer n >= 0
str(n) ==
    IF n < 10 THEN Ch(DIGITS, n + 1)
    ELSE str(n \div 10) \o Ch(DIGITS, (n % 10) + 1)

\* a plausible slip: the sub-level counter survives an explicit number
get_next_chapter_number_keeps_sub(title, last, sub) ==
    LET m == number_extractor_search(title)
    IN  IF m # ""
        THEN [label |-> str(int(m)), last_chapter_num |-> int(m),
              sub_chapter_count |-> sub]
        ELSE IF last = 0
        THEN [label |-> "1", last_chapter_num |-> 1, sub_chapter_count |-> sub]
        ELSE [label |-> str(last) \o "." \o str(sub + 1),
              last_chapter_num |-> last, sub_chapter_count |-> sub + 1]

\* EpubIngestor.get_next_chapter_number, on (last_chapter_num,
\* sub_chapter_count) = (last, sub): the label returned and the new counters
get_next_chapter_number(title, last, sub) ==
    LET m == number_extractor_search(title)
    IN  IF m # ""
        THEN [label |-> str(int(m)), last_chapter_num |-> int(m),
              sub_chapter_count |-> 0]
        ELSE IF last = 0
        THEN [label |-> "1", last_chapter_num |-> 1, sub_chapter_count |-> sub]
        ELSE [label |-> str(last) \o "." \o str(sub + 1),
              last_chapter_num |-> last, sub_chapter_count |-> sub + 1]

MaxTitles == 3

\* titles passed to the numbering: with and without digit runs, with leading
\* zeros, with several runs, with the number 0, empty
NUM_TITLES ==
    {"Chapter 1", "Intro", "Chapter 12", "Part 007 of 3", "", "Chapter 0",
     "2nd Epilogue", "Capitulo 3"}

InitNumber ==
    /\ Idle
    /\ pc = "number"
    /\ arg = <<>>
    /\ ret = <<>>

\* one call of get_next_chapter_number; arg and ret record the titles passed
\* and the labels returned
NumberCall ==
    /\ pc = "number"
    /\ Len(arg) < MaxTitles
    /\ \E title \in NUM_TITLES :
         LET r == get_next_chapter_number(title, last_chapter_num,
                                          sub_chapter_count)
         IN  /\ last_chapter_num' = r.last_chapter_num
             /\ sub_chapter_count' = r.sub_chapter_count
             /\ arg' = Append(arg, title)
             /\ ret' = Append(ret, r.label)
    /\ UNCHANGED <<pc, runVars, walkVars>>

NextNumber == NumberCall

SpecNumber == InitNumber /\ [][NextNumber]_vars

-----------------------------------------------------------------------------
(* Scene chunker *)

SENTENCE_END == {".", "!", "?"}

\* a match of the pattern (?<=[.!?]) + starts at position i of s
SentenceBreakAt(s, i) ==
    /\ 1 < i /\ i <= Len(s)
    /\ Ch(s, i) = " "
    /\ Ch(s, i - 1) \in SENTENCE_END

RECURSIVE SkipBlanks(_, _)
\* ' +' is greedy: the whole run of spaces belongs to the match
SkipBlanks(s, i) ==
    IF i <= Len(s) /\ Ch(s, i) = " " THEN SkipBlanks(s, i + 1) ELSE i

RECURSIVE ReSplitFrom(_, _, _)
\* b: start of the piece being read, i: scan position
ReSplitFrom(s, b, i) ==
    IF i > Len(s) THEN <<SubSeq(s, b, Len(s))>>
    ELSE IF SentenceBreakAt(s, i)
    THEN <<SubSeq(s, b, i - 1)>>
         \o ReSplitFrom(s, SkipBlanks(s, i), SkipBlanks(s, i))
    ELSE ReSplitFrom(s, b, i + 1)

RECURSIVE ReSplitEatingFrom(_, _, _)
ReSplitEatingFrom(s, b, i) ==
    IF i > Len(s) THEN <<SubSeq(s, b, Len(s))>>
    ELSE IF SentenceBreakAt(s, i)
    THEN <<SubSeq(s, b, i - 2)>>
         \o ReSplitEatingFrom(s, SkipBlanks(s, i), SkipBlanks(s, i))
    ELSE ReSplitEatingFrom(s, b, i + 1)

\* a plausible slip: the pattern [.!?] +, with no lookbehind, which takes the
\* punctuation mark away with the blanks
re_split_sentences_eating(text) == ReSplitEatingFrom(text, 1, 1)

\* re.split(r'(?<=[.!?]) +', text)
re_split_sentences(text) == ReSplitFrom(text, 1, 1)

\* a plausible slip: the chunk is closed as soon as the limit is reached
RECURSIVE ChunkLoopEager(_, _, _, _, _, _)
ChunkLoopEager(sentences, i, chunks, current_chunk, current_count, max_words) ==
    IF i > Len(sentences)
    THEN IF current_chunk # <<>>
         THEN Append(chunks, Join(current_chunk, " "))
         ELSE chunks
    ELSE LET sentence == sentences[i]
             sentence_word_count == Len(Split(sentence))
         IN  IF current_count + sentence_word_count >= max_words
             THEN ChunkLoopEager(sentences, i + 1,
                      IF current_chunk # <<>>
                      THEN Append(chunks, Join(current_chunk, " "))
                      ELSE chunks,
                      <<sentence>>, sentence_word_count, max_words)
             ELSE ChunkLoopEager(sentences, i + 1, chunks,
                      Append(current_chunk, sentence),
                      current_count + sentence_word_count, max_words)

RECURSIVE ChunkLoopLate(_, _, _, _, _, _)
\* a plausible slip: the chunk is closed only once it already exceeds max_words
ChunkLoopLate(sentences, i, chunks, current_chunk, current_count, max_words) ==
    IF i > Len(sentences)
    THEN IF current_chunk # <<>>
         THEN Append(chunks, Join(current_chunk, " "))
         ELSE chunks
    ELSE LET sentence == sentences[i]
             sentence_word_count == Len(Split(sentence))
         IN  IF current_count > max_words
             THEN ChunkLoopLate(sentences, i + 1,
                      IF current_chunk # <<>>
                      THEN Append(chunks, Join(current_chunk, " "))
                      ELSE chunks,
                      <<sentence>>, sentence_word_count, max_words)
             ELSE ChunkLoopLate(sentences, i + 1, chunks,
                      Append(current_chunk, sentence),
                      current_count + sentence_word_count, max_words)

RECURSIVE ChunkLoop(_, _, _, _, _, _)
\* the for loop of split_large_text from sentence i on, and the final flush
ChunkLoop(sentences, i, chunks, current_chunk, current_count, max_words) ==
    IF i > Len(sentences)
    THEN IF current_chunk # <<>>
         THEN Append(chunks, Join(current_chunk, " "))
         ELSE chunks
    ELSE LET sentence == sentences[i]
             sentence_word_count == Len(Split(sentence))
         IN  IF current_count + sentence_word_count > max_words
             THEN ChunkLoop(sentences, i + 1,
                      IF current_chunk # <<>>
                      THEN Append(chunks, Join(current_chunk, " "))
                      ELSE chunks,
                      <<sentence>>, sentence_word_count, max_words)
             ELSE ChunkLoop(sentences, i + 1, chunks,
                      Append(current_chunk, sentence),
                      current_count + sentence_word_count, max_words)

\* EpubIngestor.split_large_text
split_large_text(text, max_words) ==
    IF Len(Split(text)) <= max_words THEN <<text>>
    ELSE ChunkLoop(re_split_sentences(text), 1, <<>>, <<>>, 0, max_words)

MaxChunkPieces == 4
MaxWordsArg == 3

\* pieces the texts handed to the chunker are assembled from: words,
\* sentences of one and two words, blanks and a line break
CHUNK_PIECES == {"a ", "b. ", "c", "d? ", " ", "e!\n", "f g. "}

RECURSIVE Concats(_, _)
\* the concatenations of at most n pieces
Concats(pieces, n) ==
    IF n = 0 THEN {""}
    ELSE LET shorter == Concats(pieces, n - 1)
         IN  shorter \cup {t \o p : t \in shorter, p \in pieces}

InitChunk ==
    /\ Idle
    /\ pc = "chunk"
    /\ arg \in [text : Concats(CHUNK_PIECES, MaxChunkPieces),
                max_words : 1..MaxWordsArg]
    /\ ret = <<>>

SplitCall ==
    /\ pc = "chunk"
    /\ ret' = split_large_text(arg.text, arg.max_words)
    /\ pc' = "chunked"
    /\ UNCHANGED <<arg, runVars, numVars, walkVars>>

NextChunk == SplitCall

SpecChunk == InitChunk /\ [][NextChunk]_vars

-----------------------------------------------------------------------------
(* Parsed items: a node of the tree of an item has a tag name and either a
   text or child nodes (kids); an item has a type and the nodes below its
   root, in document order *)

HEADINGS == {"h1", "h2", "h3"}
WALKED == {"p", "div", "hr", "h1", "h2", "h3"}

Leaf(name, text) == [name |-> name, text |-> text, kids |-> <<>>]
Box(name, kids) == [name |-> name, text |-> "", kids |-> kids]

RECURSIVE ConcatTexts(_, _)
ConcatTexts(nodes, strip) ==
    IF nodes = <<>> THEN ""
    ELSE (IF strip THEN Strip(nodes[1].text) ELSE nodes[1].text)
         \o ConcatTexts(Tail(nodes), strip)

\* Tag.get_text(strip=strip): the strings below the node, each stripped when
\* strip is set, joined with no separator
get_text(node, strip) ==
    IF node.kids = <<>>
    THEN (IF strip THEN Strip(node.text) ELSE node.text)
    ELSE ConcatTexts(node.kids, strip)

RECURSIVE SelectNames(_, _)
SelectNames(nodes, names) ==
    IF nodes = <<>> THEN <<>>
    ELSE (IF nodes[1].name \in names THEN <<nodes[1]>> ELSE <<>>)
         \o SelectNames(Tail(nodes), names)

RECURSIVE find_all(_, _)
\* find_all(names): the matching descendants, a node before its children
find_all(nodes, names) ==
    IF nodes = <<>> THEN <<>>
    ELSE (IF nodes[1].name \in names THEN <<nodes[1]>> ELSE <<>>)
         \o SelectNames(nodes[1].kids, names)
         \o find_all(Tail(nodes), names)

\* the title as lines 110-114 of process_item_content detect it
\* (the placeholder is spelt with an accented i in the source)
DetectTitle(content, chapter_id) ==
    LET heads == find_all(content, HEADINGS)
    IN  IF heads # <<>>
        THEN clean_text(get_text(heads[1], FALSE))
        ELSE "Capitulo " \o str(chapter_id)

SEPARATOR_GLYPHS == {"*", "-", "_", "~"}

\* a plausible slip: the quantifier {4,} in place of {3,}
separator_pattern_match_four(s) ==
    /\ Len(s) >= 4
    /\ \A i \in 1..Len(s) : IsSpace(Ch(s, i)) \/ Ch(s, i) \in SEPARATOR_GLYPHS

\* separator_pattern.match(s)
separator_pattern_match(s) ==
    /\ Len(s) >= 3
    /\ \A i \in 1..Len(s) : IsSpace(Ch(s, i)) \/ Ch(s, i) \in SEPARATOR_GLYPHS

CODE_PREFIXES == {"{", "var ", "/*", "function("}

\* the condition of line 144
Accepted(clean_content) ==
    /\ Len(clean_content) > 2
    /\ ~\E q \in CODE_PREFIXES : StartsWith(clean_content, q)

\* lines 126-129, 139-142 and 147-149: the scenes after a flush of acc
Flushed(scs, acc) ==
    IF acc # <<>> /\ Strip(Join(acc, " ")) # ""
    THEN Append(scs, Strip(Join(acc, " ")))
    ELSE scs

\* the limit process_item_content passes to split_large_text is 1500 words;
\* the model passes this scaled-down limit, which its texts can exceed
SceneMaxWords == 3

\* a plausible slip: a scene is numbered by the position of its chunk
AppendChunksByChunkIndex(final_scenes, chunks) ==
    final_scenes
        \o [i \in 1..Len(chunks) |-> [scene_id |-> i, text |-> chunks[i]]]

\* a plausible slip: every chunk becomes a scene, blank or not
AppendChunksKeepingBlank(final_scenes, chunks) ==
    final_scenes
        \o [i \in 1..Len(chunks) |->
               [scene_id |-> Len(final_scenes) + i, text |-> chunks[i]]]

RECURSIVE AppendChunks(_, _)
\* lines 157-162
AppendChunks(final_scenes, chunks) ==
    IF chunks = <<>> THEN final_scenes
    ELSE AppendChunks(
             IF Strip(chunks[1]) # ""
             THEN Append(final_scenes,
                         [scene_id |-> Len(final_scenes) + 1, text |-> chunks[1]])
             ELSE final_scenes,
             Tail(chunks))

RECURSIVE FinalScenesFrom(_, _, _, _)
FinalScenesFrom(scs, i, title, final_scenes) ==
    IF i > Len(scs) THEN final_scenes
    ELSE IF Lower(scs[i]) = Lower(title)
    THEN FinalScenesFrom(scs, i + 1, title, final_scenes)
    ELSE FinalScenesFrom(scs, i + 1, title,
             AppendChunks(final_scenes, split_large_text(scs[i], SceneMaxWords)))

\* lines 151-162: the scenes of the chapter from the scene texts of the walk
FinalScenes(scs, title) == FinalScenesFrom(scs, 1, title, <<>>)

-----------------------------------------------------------------------------
(* run() and process_item_content() *)

ITEM_DOCUMENT == "ITEM_DOCUMENT"
ITEM_IMAGE == "ITEM_IMAGE"

\* book.get_item_with_id(item_id); <<>> stands for None
get_item_with_id(item_id) ==
    IF item_id \in DOMAIN book THEN book[item_id] ELSE <<>>

\* run(), lines 173-177
BeginRun ==
    /\ pc = "new"
    /\ processed_ids' = {}
    /\ chap_counter' = 0
    /\ pc' = "run"
    /\ UNCHANGED <<book, spine_left, chapters, numVars, walkVars, arg, ret>>

\* a plausible slip: the test of processed_ids at line 181 is left out
ReadSpineNoDedup ==
    /\ pc = "run"
    /\ spine_left > 0
    /\ spine_left' = spine_left - 1
    /\ \E item_id \in (DOMAIN book) \cup {0} :
         /\ IF ret = <<>> THEN TRUE ELSE item_id = ret[1][Len(arg) + 1]
         /\ arg' = Append(arg, item_id)
         /\ LET item == get_item_with_id(item_id)
            IN  IF item # <<>>
                   /\ item.type = ITEM_DOCUMENT
                THEN \E title \in {DetectTitle(item.content, chap_counter + 1)} :
                     \E r \in {get_next_chapter_number(title, last_chapter_num,
                                                      sub_chapter_count)} :
                         /\ processed_ids' = processed_ids \cup {item_id}
                         /\ chap_counter' = chap_counter + 1
                         /\ chapter_title' = title
                         /\ chapter_num_label' = r.label
                         /\ last_chapter_num' = r.last_chapter_num
                         /\ sub_chapter_count' = r.sub_chapter_count
                         /\ scenes' = <<>>
                         /\ current_scene_text' = <<>>
                         /\ elements' = find_all(item.content, WALKED)
                         /\ idx' = 1
                         /\ pc' = "walk"
                ELSE UNCHANGED <<pc, processed_ids, chap_counter, numVars,
                                 walkVars>>
    /\ UNCHANGED <<book, chapters, ret>>

\* one iteration of the loop of run() up to the call of process_item_content,
\* and that call up to its loop (lines 179-189, 108-122); arg records the
\* references of book.spine read so far, and a later run on the same object
\* reads the spine of the first one again (ret[1])
ReadSpine ==
    /\ pc = "run"
    /\ spine_left > 0
    /\ spine_left' = spine_left - 1
    /\ \E item_id \in (DOMAIN book) \cup {0} :
         /\ IF ret = <<>> THEN TRUE ELSE item_id = ret[1][Len(arg) + 1]
         /\ arg' = Append(arg, item_id)
         /\ LET item == get_item_with_id(item_id)
            IN  IF item_id \notin processed_ids /\ item # <<>>
                   /\ item.type = ITEM_DOCUMENT
                THEN \E title \in {DetectTitle(item.content, chap_counter + 1)} :
                     \E r \in {get_next_chapter_number(title, last_chapter_num,
                                                      sub_chapter_count)} :
                         /\ processed_ids' = processed_ids \cup {item_id}
                         /\ chap_counter' = chap_counter + 1
                         /\ chapter_title' = title
                         /\ chapter_num_label' = r.label
                         /\ last_chapter_num' = r.last_chapter_num
                         /\ sub_chapter_count' = r.sub_chapter_count
                         /\ scenes' = <<>>
                         /\ current_scene_text' = <<>>
                         /\ elements' = find_all(item.content, WALKED)
                         /\ idx' = 1
                         /\ pc' = "walk"
                ELSE UNCHANGED <<pc, processed_ids, chap_counter, numVars,
                                 walkVars>>
    /\ UNCHANGED <<book, chapters, ret>>

\* one iteration of the loop of process_item_content (lines 124-145)
WalkElement ==
    /\ pc = "walk"
    /\ idx <= Len(elements)
    /\ idx' = idx + 1
    /\ \E element \in {elements[idx]} :
       \E clean_content \in {clean_text(get_text(element, TRUE))} :
           IF element.name = "hr"
           THEN /\ scenes' = Flushed(scenes, current_scene_text)
                /\ current_scene_text' = <<>>
           ELSE IF clean_content = ""
           THEN UNCHANGED <<scenes, current_scene_text>>
           ELSE IF separator_pattern_match(clean_content)
           THEN /\ scenes' = Flushed(scenes, current_scene_text)
                /\ current_scene_text' = <<>>
           ELSE IF Accepted(clean_content)
           THEN /\ current_scene_text' = Append(current_scene_text, clean_content)
                /\ UNCHANGED scenes
           ELSE UNCHANGED <<scenes, current_scene_text>>
    /\ UNCHANGED <<pc, elements, chapter_title, chapter_num_label, runVars,
                   numVars, arg, ret>>

\* a plausible slip: an item that yields no chapter gives back its ordinal
\* and its sub-level
FinishItemForgettingDropped ==
    /\ pc = "walk"
    /\ idx > Len(elements)
    /\ \E final_scenes \in {FinalScenes(Flushed(scenes, current_scene_text),
                                       chapter_title)} :
           IF final_scenes # <<>>
           THEN /\ chapters' = Append(chapters,
                                      [title |-> chapter_title,
                                       chapter |-> chapter_num_label,
                                       scenes |-> final_scenes])
                /\ UNCHANGED <<chap_counter, numVars>>
           ELSE /\ chap_counter' = chap_counter - 1
                /\ sub_chapter_count' = IF sub_chapter_count > 0
                                        THEN sub_chapter_count - 1 ELSE 0
                /\ UNCHANGED <<chapters, last_chapter_num>>
    /\ elements' = <<>> /\ idx' = 0 /\ current_scene_text' = <<>>
    /\ scenes' = <<>> /\ chapter_title' = "" /\ chapter_num_label' = ""
    /\ pc' = "run"
    /\ UNCHANGED <<book, spine_left, processed_ids, arg, ret>>

\* the rest of process_item_content and of the iteration of run()
\* (lines 147-170, 190-191); the locals of the call are dropped
FinishItem ==
    /\ pc = "walk"
    /\ idx > Len(elements)
    /\ \E final_scenes \in {FinalScenes(Flushed(scenes, current_scene_text),
                                       chapter_title)} :
           chapters' = IF final_scenes # <<>>
                       THEN Append(chapters,
                                   [title |-> chapter_title,
                                    chapter |-> chapter_num_label,
                                    scenes |-> final_scenes])
                       ELSE chapters
    /\ elements' = <<>> /\ idx' = 0 /\ current_scene_text' = <<>>
    /\ scenes' = <<>> /\ chapter_title' = "" /\ chapter_num_label' = ""
    /\ pc' = "run"
    /\ UNCHANGED <<book, spine_left, processed_ids, chap_counter, numVars,
                   arg, ret>>

\* the spine is exhausted: run() returns the structure (line 193)
EndRun ==
    /\ pc = "run"
    /\ IF ret = <<>> THEN TRUE ELSE Len(arg) = Len(ret[1])
    /\ pc' = "done"
    /\ UNCHANGED <<runVars, numVars, walkVars, arg, ret>>

MaxRuns == 2

\* run() called again on the same object (lines 172-177): load_book reads the
\* same file, processed_ids and chap_counter are locals and start afresh;
\* nothing else is assigned.  ret keeps the spines of the runs made
RunAgain ==
    /\ pc = "done"
    /\ Len(ret) + 1 < MaxRuns
    /\ ret' = Append(ret, arg)
    /\ arg' = <<>>
    /\ spine_left' = Len(Append(ret, arg)[1])
    /\ processed_ids' = {}
    /\ chap_counter' = 0
    /\ pc' = "run"
    /\ UNCHANGED <<book, chapters, numVars, walkVars>>

Next == BeginRun \/ ReadSpine \/ WalkElement \/ FinishItem \/ EndRun

-----------------------------------------------------------------------------
(* The inputs: one book read along a spine, and single items *)

MaxSpine == 3

Doc(content) == [type |-> ITEM_DOCUMENT, content |-> content]

\* items with numbered, unnumbered, repeated and missing headings, items that
\* yield no scene, and an image
BOOK ==
    << Doc(<<Leaf("h1", "Chapter 1"), Leaf("p", "He walked in.")>>),
       Doc(<<Leaf("h1", "Intro"), Leaf("hr", ""), Leaf("p", "She spoke last.")>>),
       Doc(<<Leaf("p", "He walked in."), Leaf("p", "***"),
             Leaf("p", "She spoke last.")>>),
       Doc(<<Leaf("h2", "Chapter 1"), Leaf("hr", ""), Leaf("div", "He left!")>>),
       Doc(<<Leaf("h1", "Chapter 3")>>),
       Doc(<<Leaf("h3", "Epilogue"), Leaf("p", "42")>>),
       Doc(<<Leaf("h1", "Chapter 0"), Leaf("p", "He walked in.")>>),
       [type |-> ITEM_IMAGE, content |-> <<>>] >>

InitCommon ==
    /\ pc = "new"
    /\ processed_ids = {} /\ chap_counter = 0 /\ chapters = <<>>
    /\ last_chapter_num = 0 /\ sub_chapter_count = 0
    /\ elements = <<>> /\ idx = 0 /\ current_scene_text = <<>>
    /\ scenes = <<>> /\ chapter_title = "" /\ chapter_num_label = ""
    /\ arg = <<>> /\ ret = <<>>

\* a new ingestor (__init__) on BOOK, whose spine has at most MaxSpine
\* references
Init ==
    /\ InitCommon
    /\ book = BOOK
    /\ spine_left = MaxSpine

Spec == Init /\ [][Next]_vars

NextRerun ==
    BeginRun \/ ReadSpine \/ WalkElement \/ FinishItem \/ EndRun \/ RunAgain

\* the same ingestor, with run() called up to MaxRuns times
SpecRerun == Init /\ [][NextRerun]_vars

MaxElems == 3

\* the nodes the single items are made of
NODE_POOL ==
    { Leaf("h1", "Chapter 2"),
      Leaf("h2", " \n"),
      Leaf("p", "He walked in."),
      Leaf("p", "She spoke last. He left!"),
      Leaf("p", "***"),
      Leaf("hr", ""),
      Leaf("p", "123"),
      Leaf("p", "42"),
      Leaf("p", "1.5"),
      Leaf("div", "{x}"),
      Box("div", <<Leaf("p", "He walked in."), Leaf("p", "* * *")>>) }

RECURSIVE SeqsUpTo(_, _)
\* the sequences of at most n members of pool
SeqsUpTo(pool, n) ==
    IF n = 0 THEN {<<>>}
    ELSE LET shorter == SeqsUpTo(pool, n - 1)
         IN  shorter \cup {Append(q, x) : q \in shorter, x \in pool}

\* the item of the end-to-end scenario
E2E_ITEM ==
    << Leaf("h1", "Chapter 2"), Leaf("p", "He walked in."), Leaf("p", "***"),
       Leaf("p", "She spoke last."), Leaf("hr", "") >>

\* an item whose title is also the last sentence of a scene that is chunked
TITLE_CHUNK_ITEM ==
    << Leaf("h1", "He left!"), Leaf("hr", ""),
       Leaf("p", "She spoke last. He left!") >>

ITEM_CONTENTS == SeqsUpTo(NODE_POOL, MaxElems) \cup {E2E_ITEM, TITLE_CHUNK_ITEM}

\* a new ingestor on a book of one document item, referenced once
InitItem ==
    /\ InitCommon
    /\ book \in {<<Doc(c)>> : c \in ITEM_CONTENTS}
    /\ spine_left = 1

SpecItem == InitItem /\ [][Next]_vars

-----------------------------------------------------------------------------
(* Properties *)

\* the element the walk is about to visit
AtElement == pc = "walk" /\ idx <= Len(elements)

E2E_CHAPTER ==
    [title |-> "Chapter 2", chapter |-> "2",
     scenes |-> << [scene_id |-> 1, text |-> "He walked in."],
                   [scene_id |-> 2, text |-> "She spoke last."] >>]

\* C1: heading elements add nothing to the scenes (visiting one changes
\* neither the accumulator nor the scenes), and the item of the end-to-end
\* scenario yields the chapter "2", "Chapter 2" with the two scenes
\* "He walked in." and "She spoke last."
C1_HeadingsOnlyTitle ==
    /\ [][(AtElement /\ elements[idx].name \in HEADINGS)
            => UNCHANGED <<current_scene_text, scenes>>]_vars
    /\ []((pc = "done" /\ processed_ids = {1} /\ book = <<Doc(E2E_ITEM)>>)
            => chapters = <<E2E_CHAPTER>>)

\* C2: every chapter of the structure has at least one scene and its scenes
\* carry the scene_id values 1, 2, ..., N in order
C2_SceneIdsContiguous ==
    \A c \in 1..Len(chapters) :
        /\ Len(chapters[c].scenes) >= 1
        /\ \A i \in 1..Len(chapters[c].scenes) :
               chapters[c].scenes[i].scene_id = i

\* C2 witness: a heading scene dropped for equalling the title, followed by
\* a scene the chunker split in two
C2_Witness ==
    /\ pc = "done"
    /\ book = <<Doc(<<Leaf("h1", "Chapter 2"), Leaf("hr", ""),
                      Leaf("p", "She spoke last. He left!")>>)>>
    /\ Len(chapters) = 1
    /\ chapters[1].scenes = << [scene_id |-> 1, text |-> "She spoke last."],
                               [scene_id |-> 2, text |-> "He left!"] >>

\* C3: no two chapters of the structure carry the same label, so that
\* (chapter, scene_id) addresses one scene
C3_LabelsUnique ==
    \A i, j \in 1..Len(chapters) :
        i # j => chapters[i].chapter # chapters[j].chapter

HasDigit(t) == \E i \in 1..Len(t) : Ch(t, i) \in DIGIT_CHARS

\* the first run of digits of t, read off its positions
FirstDigitRun(t) ==
    LET b == CHOOSE i \in 1..Len(t) :
                 /\ Ch(t, i) \in DIGIT_CHARS
                 /\ \A k \in 1..(i - 1) : Ch(t, k) \notin DIGIT_CHARS
        e == CHOOSE j \in b..Len(t) :
                 /\ \A k \in b..j : Ch(t, k) \in DIGIT_CHARS
                 /\ (j = Len(t) \/ Ch(t, j + 1) \notin DIGIT_CHARS)
    IN  SubSeq(t, b, e)

RECURSIVE Pow10(_)
Pow10(n) == IF n = 0 THEN 1 ELSE 10 * Pow10(n - 1)

RECURSIVE SumDigits(_, _)
\* the value of a digit string as the sum of its digits times powers of ten
SumDigits(d, i) ==
    IF i > Len(d) THEN 0
    ELSE DigitVal(Ch(d, i)) * Pow10(Len(d) - i) + SumDigits(d, i + 1)

\* C4: a call with a title that holds a digit run returns the value of the
\* first run in decimal, stores it in last_chapter_num and zeroes
\* sub_chapter_count; with no digits and last_chapter_num = 0 it stores 1 and
\* returns "1"; with no digits and last_chapter_num > 0 it increments
\* sub_chapter_count and returns "last.sub"; the titles "Chapter 1", "Intro",
\* "Intro" get "1", "1.1", "1.2"
C4_NumberingSteps ==
    /\ [][(pc = "number" /\ Len(arg') = Len(arg) + 1) =>
            LET t == arg'[Len(arg')]
                label == ret'[Len(ret')]
            IN  IF HasDigit(t)
                THEN /\ last_chapter_num' = SumDigits(FirstDigitRun(t), 1)
                     /\ label = str(last_chapter_num')
                     /\ sub_chapter_count' = 0
                ELSE IF last_chapter_num = 0
                THEN /\ last_chapter_num' = 1
                     /\ label = "1"
                ELSE /\ sub_chapter_count' = sub_chapter_count + 1
                     /\ last_chapter_num' = last_chapter_num
                     /\ label = str(last_chapter_num) \o "."
                                  \o str(sub_chapter_count + 1)]_vars
    /\ [](arg = <<"Chapter 1", "Intro", "Intro">> => ret = <<"1", "1.1", "1.2">>)

\* C4 witness: the three titles of the example were passed and labelled,
\* the second and third on the sub-level
C4_Witness ==
    /\ arg = <<"Chapter 1", "Intro", "Intro">>
    /\ ret = <<"1", "1.1", "1.2">>
    /\ sub_chapter_count = 2

WordCount(s) == Len(Split(s))

\* some sentence break (a blank after '.', '!' or '?') lies inside s
HasBreakInside(s) ==
    \E i \in 2..Len(s) : Ch(s, i) = " " /\ Ch(s, i - 1) \in SENTENCE_END

\* s stands whole in text, between blanks or the ends of text
StandsWholeIn(s, text) ==
    \E b \in 1..(Len(text) - Len(s) + 1) :
        /\ SubSeq(text, b, b + Len(s) - 1) = s
        /\ (b = 1 \/ Ch(text, b - 1) = " ")
        /\ (b + Len(s) - 1 = Len(text) \/ Ch(text, b + Len(s)) = " ")

\* C5: a chunk has at most max_words words, unless it is one sentence of
\* the text, whole, with more than max_words words
C5_ChunkBound ==
    pc = "chunked" =>
        \A k \in 1..Len(ret) :
            \/ WordCount(ret[k]) <= arg.max_words
            \/ /\ ~HasBreakInside(ret[k])
               /\ StandsWholeIn(ret[k], arg.text)

\* C5 witness: one chunk is an oversized sentence, another holds several
\* sentences within the limit
C5_Witness ==
    /\ pc = "chunked"
    /\ \E k \in 1..Len(ret) : WordCount(ret[k]) > arg.max_words
    /\ \E k \in 1..Len(ret) :
           HasBreakInside(ret[k]) /\ WordCount(ret[k]) = arg.max_words

RECURSIVE WordsOfAll(_)
\* the words of the chunks, concatenated in chunk order
WordsOfAll(chunks) ==
    IF chunks = <<>> THEN <<>>
    ELSE Split(chunks[1]) \o WordsOfAll(Tail(chunks))

\* the position in text of the last character of its n-th word
WordEnd(text, n) ==
    CHOOSE e \in 1..Len(text) :
        /\ ~IsSpace(Ch(text, e))
        /\ (e = Len(text) \/ IsSpace(Ch(text, e + 1)))
        /\ WordCount(SubSeq(text, 1, e)) = n

\* C6: the words of the chunks, in order, are the words of the text, and
\* every chunk but the last ends where the text has '.', '!' or '?'
\* followed by a blank
C6_ChunkCoverage ==
    pc = "chunked" =>
        /\ WordsOfAll(ret) = Split(arg.text)
        /\ \A k \in 1..(Len(ret) - 1) :
               LET n == Len(WordsOfAll(SubSeq(ret, 1, k)))
                   e == WordEnd(arg.text, n)
               IN  /\ n >= 1
                   /\ Ch(arg.text, e) \in SENTENCE_END
                   /\ e < Len(arg.text)
                   /\ Ch(arg.text, e + 1) = " "

\* C6 witness: a text of several sentences, with a line break inside one,
\* cut into three chunks or more
C6_Witness ==
    /\ pc = "chunked"
    /\ Len(ret) >= 3
    /\ \E i \in 1..Len(arg.text) : Ch(arg.text, i) = "\n"
    /\ WordCount(arg.text) >= 4

\* three or more characters, each a separator glyph or whitespace
IsVisualSeparator(s) ==
    /\ Len(s) >= 3
    /\ \A i \in 1..Len(s) : Ch(s, i) \in {"*", "-", "_", "~", " ", "\t", "\n"}

\* the element is an explicit break or its normalized text is a separator
IsBoundary(element) ==
    \/ element.name = "hr"
    \/ IsVisualSeparator(clean_text(get_text(element, TRUE)))

RECURSIVE WithoutDots(_, _)
WithoutDots(s, i) ==
    IF i > Len(s) THEN ""
    ELSE (IF Ch(s, i) = "." THEN "" ELSE Ch(s, i)) \o WithoutDots(s, i + 1)

\* s, with its '.' characters removed, is a non-empty string of digits
IsNumericNoise(s) ==
    LET d == WithoutDots(s, 1)
    IN  d # "" /\ \A i \in 1..Len(d) : Ch(d, i) \in DIGIT_CHARS

\* C8: no fragment of the accumulator is numeric noise
C8_NumericNoiseRejected ==
    \A i \in 1..Len(current_scene_text) : ~IsNumericNoise(current_scene_text[i])

\* C9: a second clean_text changes nothing
C9_CleanIdempotent ==
    Len(ret) >= 2 => ret[2] = ret[1]

\* C10: every chapter of the structure has a non-empty title
C10_TitleNonEmpty ==
    \A c \in 1..Len(chapters) : chapters[c].title # ""

\* the validity filter: three characters or more, not numeric noise, no
\* code-like prefix
IsProse(s) ==
    /\ Len(s) >= 3
    /\ ~IsNumericNoise(s)
    /\ ~\E q \in {"{", "var ", "/*", "function("} : StartsWith(s, q)

\* C11: every scene of the structure has a non-empty text that differs from
\* the title of its chapter, letter case aside, and passes the validity filter
C11_ScenesValid ==
    \A c \in 1..Len(chapters) :
        \A i \in 1..Len(chapters[c].scenes) :
            LET text == chapters[c].scenes[i].text
            IN  /\ text # ""
                /\ Lower(text) # Lower(chapters[c].title)
                /\ IsProse(text)

-----------------------------------------------------------------------------
(* The emission loop of process_item_content (lines 151-162) on its own: the
   scene texts are drawn from a pool that holds the empty and the blank text,
   ret is final_scenes and arg logs each call of split_large_text *)

MaxEmitScenes == 2

EMIT_TEXTS == {"", " ", "c", "He left!", "a b c d. ", "a b. c d"}

EMIT_TITLES == {"He left!", "Intro"}

InitEmit ==
    /\ book = <<>> /\ spine_left = 0 /\ processed_ids = {}
    /\ chap_counter = 0 /\ chapters = <<>>
    /\ last_chapter_num = 0 /\ sub_chapter_count = 0
    /\ elements = <<>> /\ current_scene_text = <<>>
    /\ chapter_num_label = ""
    /\ pc = "emit"
    /\ scenes \in SeqsUpTo(EMIT_TEXTS, MaxEmitScenes)
    /\ chapter_title \in EMIT_TITLES
    /\ idx = 1
    /\ arg = <<>>
    /\ ret = <<>>

\* lines 152-162: one turn of the loop over scenes
EmitScene ==
    /\ pc = "emit"
    /\ idx <= Len(scenes)
    /\ idx' = idx + 1
    /\ IF Lower(scenes[idx]) = Lower(chapter_title)
       THEN UNCHANGED <<arg, ret>>
       ELSE \E chunks \in {split_large_text(scenes[idx], SceneMaxWords)} :
                /\ arg' = Append(arg, [text |-> scenes[idx], chunks |-> chunks])
                /\ ret' = AppendChunks(ret, chunks)
    /\ UNCHANGED <<pc, runVars, numVars, elements, current_scene_text, scenes,
                   chapter_title, chapter_num_label>>

NextEmit == EmitScene

SpecEmit == InitEmit /\ [][NextEmit]_vars

RECURSIVE LoggedChunks(_)
\* the chunks of every logged call, in order
LoggedChunks(log) ==
    IF log = <<>> THEN <<>> ELSE Head(log).chunks \o LoggedChunks(Tail(log))

\* no scene and no sequence number for a blank chunk: the scenes are the
\* non-blank chunks of the calls so far, in order, numbered 1, 2, ...
NoSceneForBlankChunk ==
    /\ \A i \in 1..Len(ret) : ret[i].scene_id = i /\ Strip(ret[i].text) # ""
    /\ [i \in 1..Len(ret) |-> ret[i].text]
           = SelectSeq(LoggedChunks(arg), LAMBDA c : Strip(c) # "")

\* C12 as stated: the chunker called with empty text returns no chunk, and
\* the loop emits no scene and uses no sequence number for a blank chunk
C12_EmptyTextNoChunks ==
    pc = "emit" =>
        /\ \A k \in 1..Len(arg) : arg[k].text = "" => arg[k].chunks = <<>>
        /\ NoSceneForBlankChunk

\* C12 amended: the chunker called with empty text returns that one empty
\* text as its only chunk, and the loop emits no scene and uses no sequence
\* number for a blank chunk
C12_EmptyTextOneBlankChunk ==
    pc = "emit" =>
        /\ \A k \in 1..Len(arg) : arg[k].text = "" => arg[k].chunks = <<"">>
        /\ NoSceneForBlankChunk

\* the empty text went through the chunker, a later text gave a blank chunk
\* after a real one, and only the real one is a scene
C12_Witness ==
    /\ pc = "emit"
    /\ scenes = <<"", "a b c d. ">>
    /\ idx = 3
    /\ arg = << [text |-> "", chunks |-> <<"">>],
                [text |-> "a b c d. ", chunks |-> <<"a b c d.", "">>] >>
    /\ ret = << [scene_id |-> 1, text |-> "a b c d."] >>

-----------------------------------------------------------------------------
(* The run over a spine: arg is the part of the spine read so far *)

IsDocumentId(item_id) ==
    item_id \in DOMAIN book /\ book[item_id].type = ITEM_DOCUMENT

RECURSIVE FirstDocsFrom(_, _, _)
FirstDocsFrom(spine, i, docs) ==
    IF i > Len(spine) THEN docs
    ELSE FirstDocsFrom(spine, i + 1,
             IF IsDocumentId(spine[i]) /\ \A k \in 1..Len(docs) : docs[k] # spine[i]
             THEN Append(docs, spine[i])
             ELSE docs)

\* the document identifiers of a spine, each at its first occurrence
FirstDocs(spine) == FirstDocsFrom(spine, 1, <<>>)

RECURSIVE IsSubseqFrom(_, _, _, _)
IsSubseqFrom(a, i, b, j) ==
    IF i > Len(a) THEN TRUE
    ELSE IF j > Len(b) THEN FALSE
    ELSE IF a[i] = b[j] THEN IsSubseqFrom(a, i + 1, b, j + 1)
    ELSE IsSubseqFrom(a, i, b, j + 1)

\* a is b with some elements left out
IsSubseq(a, b) == IsSubseqFrom(a, 1, b, 1)

\* the title of the k-th processed document
TitleOfDoc(docs, k) == DetectTitle(book[docs[k]].content, k)

C13_FirstOccurrencesOnly ==
    LET docs == FirstDocs(arg)
    IN  /\ processed_ids = {docs[k] : k \in 1..Len(docs)}
        /\ chap_counter = Len(docs)
        /\ Len(chapters) <= Len(docs)
        /\ IsSubseq([c \in 1..Len(chapters) |-> chapters[c].title],
                    [k \in 1..Len(docs) |-> TitleOfDoc(docs, k)])

C13_SkipHasNoEffect ==
    (/\ pc = "run"
     /\ arg' # arg
     /\ LET item_id == arg'[Len(arg')]
        IN  item_id \in processed_ids \/ ~IsDocumentId(item_id))
        => UNCHANGED <<pc, processed_ids, chap_counter, chapters,
                       last_chapter_num, sub_chapter_count>>

\* C13: whatever the spine repeats or holds besides documents, the processed
\* documents are the first occurrences of the document identifiers, the
\* ordinal counts them, the chapters follow their order, and reading a
\* repeated identifier or a non-document item changes neither the chapters
\* nor the ordinal nor the numbering state
C13_EachDocumentOnce ==
    /\ []C13_FirstOccurrencesOnly
    /\ [][C13_SkipHasNoEffect]_vars

\* a spine read to its end that repeats a document and then names another
C13_Witness ==
    /\ pc = "done"
    /\ arg = <<2, 2, 1>>
    /\ chap_counter = 2
    /\ [c \in 1..Len(chapters) |-> chapters[c].title] = <<"Intro", "Chapter 1">>

\* C14: when a run starts the structure holds no chapter and the numbering
\* state is (0, 0), and when a run ends the structure holds at most one
\* chapter for each document of that run
C14_FreshEachRun ==
    /\ (pc = "run" /\ arg = <<>>) =>
           /\ chapters = <<>>
           /\ last_chapter_num = 0 /\ sub_chapter_count = 0
    /\ pc = "done" => Len(chapters) <= Len(FirstDocs(arg))

-----------------------------------------------------------------------------
(* Greedy chunking *)

RECURSIVE FirstBreak(_, _)
\* the first blank at or after i that follows '.', '!' or '?'; Len(s) + 1 if
\* there is none
FirstBreak(s, i) ==
    IF i > Len(s) THEN Len(s) + 1
    ELSE IF i >= 2 /\ Ch(s, i) = " " /\ Ch(s, i - 1) \in SENTENCE_END THEN i
    ELSE FirstBreak(s, i + 1)

FirstSentence(s) == SubSeq(s, 1, FirstBreak(s, 1) - 1)

RECURSIVE PastBlanks(_, _)
PastBlanks(s, i) ==
    IF i <= Len(s) /\ Ch(s, i) = " " THEN PastBlanks(s, i + 1) ELSE i

RECURSIVE SentencesOf(_)
\* the sentences of s: the stretches between its sentence breaks
SentencesOf(s) ==
    LET b == FirstBreak(s, 1)
    IN  IF b > Len(s) THEN <<s>>
        ELSE <<SubSeq(s, 1, b - 1)>>
                 \o SentencesOf(SubSeq(s, PastBlanks(s, b), Len(s)))

\* text is 2 * max_words words long and made of sentences of w words each,
\* w dividing max_words (the scenario of 3000 words in sentences of 10 words
\* with max_words = 1500, to scale)
TwoChunkScenario(text, max_words) ==
    LET sentences == SentencesOf(text)
        w == WordCount(sentences[1])
    IN  /\ w >= 1
        /\ max_words % w = 0
        /\ \A k \in 1..Len(sentences) : WordCount(sentences[k]) = w
        /\ Len(sentences) * w = 2 * max_words

\* C15: for two consecutive chunks, the words of the first and the words of
\* the first sentence of the second exceed max_words together; and a text of
\* 2 * max_words words in equal sentences whose length divides max_words
\* gives exactly two chunks of at most max_words words, the first ending at
\* a sentence end
C15_GreedyChunks ==
    pc = "chunked" =>
        /\ \A k \in 1..(Len(ret) - 1) :
               WordCount(ret[k]) + WordCount(FirstSentence(ret[k + 1]))
                   > arg.max_words
        /\ TwoChunkScenario(arg.text, arg.max_words) =>
               /\ Len(ret) = 2
               /\ WordCount(ret[1]) <= arg.max_words
               /\ WordCount(ret[2]) <= arg.max_words
               /\ Ch(ret[1], Len(ret[1])) \in SENTENCE_END

\* four sentences of one word with max_words = 2 give two chunks of two
C15_Witness ==
    /\ pc = "chunked"
    /\ arg = [text |-> "b. b. b. c", max_words |-> 2]
    /\ TwoChunkScenario(arg.text, arg.max_words)
    /\ ret = <<"b. b.", "b. c">>

-----------------------------------------------------------------------------
(* Labels along a run *)

HasHeading(item_id) == find_all(book[item_id].content, HEADINGS) # <<>>

\* the item carries a chapter number of its own: it has a heading, and the
\* text of the heading holds a digit
HasOwnNumber(item_id) ==
    /\ HasHeading(item_id)
    /\ HasDigit(DetectTitle(book[item_id].content, 0))

OwnNumber(item_id) ==
    SumDigits(FirstDigitRun(DetectTitle(book[item_id].content, 0)), 1)

\* C16: the document being processed, if it has no number of its own and
\* some document before it in the run has one, is labelled "N.k": N the
\* latest such number, k the count of documents since
C16_SubLevelAfterNumbered ==
    pc = "walk" =>
        LET docs == FirstDocs(arg)
            n == Len(docs)
            numbered == {j \in 1..(n - 1) : HasOwnNumber(docs[j])}
        IN  (~HasOwnNumber(docs[n]) /\ numbered # {}) =>
                LET j == CHOOSE x \in numbered : \A y \in numbered : y <= x
                IN  chapter_num_label
                        = str(OwnNumber(docs[j])) \o "." \o str(n - j)

RECURSIVE DotAt(_, _)
\* the position of the first '.' of label at or after i; 0 if there is none
DotAt(label, i) ==
    IF i > Len(label) THEN 0
    ELSE IF Ch(label, i) = "." THEN i
    ELSE DotAt(label, i + 1)

\* a label as a pair: "N" is <<N, 0>> and "N.k" is <<N, k>>
LabelPair(label) ==
    LET d == DotAt(label, 1)
    IN  IF d = 0 THEN <<SumDigits(label, 1), 0>>
        ELSE <<SumDigits(SubSeq(label, 1, d - 1), 1),
               SumDigits(SubSeq(label, d + 1, Len(label)), 1)>>

PairLess(a, b) == a[1] < b[1] \/ (a[1] = b[1] /\ a[2] < b[2])

\* the explicit numbers of the titles, in order
ExplicitNumbers(titles) ==
    LET numbered == SelectSeq(titles, HasDigit)
    IN  [k \in 1..Len(numbered) |-> SumDigits(FirstDigitRun(numbered[k]), 1)]

\* C17: when the explicit numbers of the titles passed are positive and
\* strictly increasing, the labels returned are strictly increasing as
\* (major, minor) pairs
C17_LabelsIncrease ==
    pc = "number" =>
        LET nums == ExplicitNumbers(arg)
        IN  (\A k \in 1..Len(nums) :
                 /\ nums[k] > 0
                 /\ k > 1 => nums[k - 1] < nums[k])
            => \A k \in 2..Len(ret) :
                   PairLess(LabelPair(ret[k - 1]), LabelPair(ret[k]))

-----------------------------------------------------------------------------
(* Paragraphs and the scenes of the walk *)

\* how many times s occurs in t
Occurrences(s, t) ==
    Cardinality({b \in 1..(Len(t) - Len(s) + 1) :
                     SubSeq(t, b, b + Len(s) - 1) = s})

\* the normalized text of element i of the walk
CleanOf(i) == clean_text(get_text(elements[i], TRUE))

\* element i of the walk is a paragraph whose text the walk accumulates
IsAcceptedParagraph(i) ==
    /\ elements[i].name = "p"
    /\ CleanOf(i) # ""
    /\ ~separator_pattern_match(CleanOf(i))
    /\ Accepted(CleanOf(i))

\* C18: the normalized text of an accepted paragraph occurs in the scenes of
\* the walk as many times as there were accepted paragraphs with that text,
\* once for each
C18_ParagraphOnce ==
    pc = "walk" =>
        LET text == Join(Flushed(scenes, current_scene_text), " ")
        IN  \A i \in 1..(idx - 1) :
                IsAcceptedParagraph(i) =>
                    Occurrences(CleanOf(i), text)
                        = Cardinality({k \in 1..(idx - 1) :
                                           /\ IsAcceptedParagraph(k)
                                           /\ CleanOf(k) = CleanOf(i)})

RECURSIVE NumberedFrom(_, _, _, _, _)
\* the labels of the titles from the k-th on and the numbering state after
\* the last, each title labelled in turn from the state (last, sub)
NumberedFrom(titles, k, last, sub, labels) ==
    IF k > Len(titles)
    THEN [labels |-> labels, last |-> last, sub |-> sub]
    ELSE IF HasDigit(titles[k])
    THEN LET n == SumDigits(FirstDigitRun(titles[k]), 1)
         IN  NumberedFrom(titles, k + 1, n, 0, Append(labels, str(n)))
    ELSE IF last = 0
    THEN NumberedFrom(titles, k + 1, 1, sub, Append(labels, "1"))
    ELSE NumberedFrom(titles, k + 1, last, sub + 1,
                      Append(labels, str(last) \o "." \o str(sub + 1)))

\* C19: every document of the run, retained or not, is numbered once, in
\* reading order and before its scenes are extracted: the ordinal counts the
\* documents, the numbering state is the one after numbering all of them,
\* the document being walked has its label already, and the retained
\* chapters carry, in order, the titles and labels of that full numbering
C19_DroppedStillNumbered ==
    LET docs == FirstDocs(arg)
        titles == [k \in 1..Len(docs) |-> TitleOfDoc(docs, k)]
        all == NumberedFrom(titles, 1, 0, 0, <<>>)
    IN  /\ chap_counter = Len(docs)
        /\ last_chapter_num = all.last
        /\ sub_chapter_count = all.sub
        /\ pc = "walk" =>
               /\ chapter_title = titles[Len(docs)]
               /\ chapter_num_label = all.labels[Len(docs)]
        /\ IsSubseq([c \in 1..Len(chapters) |->
                         <<chapters[c].title, chapters[c].chapter>>],
                    [k \in 1..Len(docs) |-> <<titles[k], all.labels[k]>>])

\* "Chapter 3" and "Epilogue" yield no scene and are dropped; "Intro", read
\* third, is the only chapter and is labelled "3.2"
C19_Witness ==
    /\ pc = "done"
    /\ arg = <<5, 6, 2>>
    /\ Len(chapters) = 1
    /\ chapters[1].title = "Intro"
    /\ chapters[1].chapter = "3.2"
    /\ chap_counter = 3

====
